---- MODULE Spec2Model ----
(***************************************************************************)
(* State-machine model of shaunak27/video-utils.                           *)
(*                                                                         *)
(*   Spec          scene_detector.py: main -> process_nba_dataset ->       *)
(*                 detect_scenes -> annotate_scene_clip                    *)
(*   CompressSpec  video_compressor.py: the worker pool and compress_video *)
(*                                                                         *)
(* Paths are sequences of tokens; the token ".mp4" is the only one holding *)
(* a dot, so str.replace('.mp4', ...) and Path.stem act on tokens exactly  *)
(* as they act on the characters.                                          *)
(***************************************************************************)
EXTENDS Integers, Sequences, FiniteSets, TLC

VARIABLES
    \* ---- inputs of one run of scene_detector.py (fixed by Init)
    data_exists,      \* os.path.exists(data_path)
    dir_exists,       \* os.path.exists(video_dir)
    manifest_valid,   \* json.load(f) of the manifest succeeds
    manifest,         \* data: the sequence of item['video'] filenames
    on_disk,          \* filenames f with os.path.exists(video_dir/f)
    debug_mode,       \* args.debug
    debug_limit,      \* args.debug_limit
    debug_dir_ok,     \* os.makedirs(debug_output_dir, exist_ok=True) succeeds
    output_io,        \* the output path: "ok" | "open_fails" | "write_fails"
    \* ---- control
    pc,               \* position in main / process_nba_dataset / detect_scenes
    rc,               \* exit code returned by main (-1: still running)
    \* ---- process_nba_dataset locals
    idx,              \* 1-based position of `item` in data
    valid_count,
    processed_count,
    all_metadata,     \* dict filename -> metadata | error entry
    output_writes,    \* every json.dump made to output_path, in order
    \* ---- detect_scenes / annotate_scene_clip locals
    scene_n,          \* len(scene_list) (-1 outside detect_scenes)
    clip_k,           \* i+1 of the clip loop of detect_scenes
    frame_no,         \* frames read so far by annotate_scene_clip
    err,              \* the exception on its way to the except clause ("" if none)
    handles,          \* open handles: "video" (line 32), "cap" (100), "out" (108)
    finalized,        \* handles of the last video no release call closed: they
                      \* were closed by their finalizers when its frames went
    files,            \* debug clip files: path -> content
    dirs,             \* directories that exist under the debug output
    \* ---- history (not read by the program)
    invoked,          \* process_nba_dataset was called
    raised,           \* the call that made process_nba_dataset raise ("" if none)
    attempts,         \* one record per detect_scenes call
    outcomes,         \* per finished detect_scenes call, the entry it led to
    after_split,      \* clip numbers whose file existed right after splitting
    annotate_calls,   \* <<clip number, scene record>> per annotate_scene_clip call
    \* ---- video_compressor.py
    cpu_count,        \* multiprocessing.cpu_count()
    dir_io,           \* the directories: "ok" | "makedirs_fails" | "listdir_fails"
    listing,          \* os.listdir(INPUT_DIR)
    mp4_files,        \* sorted list of the .mp4 names
    task,             \* per submitted task: "queued" | "taken" | "gpu" | "cpu" |
                      \* "done" (returned) | "raised" (left by an exception)
    result,           \* per task: the string returned ("" while none)
    result_count,     \* per task: how many results the future got
    tlog,             \* per task: the events of compress_video, in order
    yielded,          \* the futures as_completed has yielded
    cpc               \* position of the module body

dvars == <<data_exists, dir_exists, manifest_valid, manifest, on_disk, debug_mode,
           debug_limit, debug_dir_ok, output_io, pc, rc, idx, valid_count, processed_count,
           all_metadata,
           output_writes, scene_n, clip_k, frame_no, err, handles, finalized, files,
           dirs, invoked, raised, attempts, outcomes, after_split, annotate_calls>>

cvars == <<cpu_count, dir_io, listing, mp4_files, task, result, result_count, tlog,
           yielded, cpc>>

vars == <<dvars, cvars>>

(***************************************************************************)
(* Bounds.                                                                 *)
(***************************************************************************)
MaxManifest == 3
MaxScenes == 3
MaxLimit == 1
FramesPerScene == 2
MaxSkipped == 1
MaxFiles == 5

DefaultThreshold == 20

\* video.frame_rate of the dataset's videos
Fps == 60

(***************************************************************************)
(* Paths.                                                                  *)
(***************************************************************************)
Mp4 == ".mp4"

Filenames == { <<"a", Mp4>>, <<"b", Mp4>>, <<"c", Mp4, Mp4>> }

\* a manifest record that item['video'] cannot be read from (no 'video'
\* key, or not a dict)
Malformed == <<>>

VideoDir == <<"videos">>

DebugOutputDir == <<"debug_scenes">>

\* os.path.join(a, b) for a relative b
Join(a, b) == a \o <<"/">> \o b

\* os.path.basename / Path(p).name: the final component
RECURSIVE Basename(_)
Basename(p) ==
    IF p = <<>> THEN <<>>
    ELSE IF p[Len(p)] = "/" THEN <<>>
    ELSE Append(Basename(SubSeq(p, 1, Len(p) - 1)), p[Len(p)])

\* Path(p).stem: the final component without its last suffix
Stem(p) ==
    LET name == Basename(p)
    IN  IF Len(name) > 1 /\ name[Len(name)] = Mp4
        THEN SubSeq(name, 1, Len(name) - 1) ELSE name

\* f"{n:03d}" for 1 <= n <= 9
Digit == <<"1", "2", "3", "4", "5", "6", "7", "8", "9">>

Fmt03(n) == <<"0", "0", Digit[n]>>

\* s.replace('.mp4', '_annotated.mp4'): every occurrence, left to right
RECURSIVE ReplaceMp4(_)
ReplaceMp4(s) ==
    IF s = <<>> THEN <<>>
    ELSE (IF Head(s) = Mp4 THEN <<"_annotated", Mp4>> ELSE <<Head(s)>>)
         \o ReplaceMp4(Tail(s))

\* os.path.dirname
RECURSIVE Dirname(_)
Dirname(p) ==
    IF p = <<>> THEN <<>>
    ELSE IF p[Len(p)] = "/" THEN SubSeq(p, 1, Len(p) - 1)
    ELSE Dirname(SubSeq(p, 1, Len(p) - 1))

VideoPath(f) == Join(VideoDir, f)

DebugVideoDir(f) == Join(DebugOutputDir, Stem(VideoPath(f)))

ClipPath(f, n) ==
    Join(DebugVideoDir(f), Stem(VideoPath(f)) \o <<"_scene_">> \o Fmt03(n) \o <<Mp4>>)

\* variant: the writer is given the clip's own path
BadTempPath(clip_path) == clip_path

TempPath(clip_path) == ReplaceMp4(clip_path)

(***************************************************************************)
(* Data model.                                                             *)
(***************************************************************************)
\* the scene record detect_scenes builds for enumerate index i (0-based)
\* FrameTimecode.get_seconds(): frame number / frame rate, kept as the exact
\* fraction <<numerator, denominator>>
Seconds(frame) == <<frame, Fps>>

\* f"{t:.2f}": the time in hundredths of a second, rounded to the nearest
Fmt2f(t) == (200 * t[1] + t[2]) \div (2 * t[2])

Scene(i) ==
    [scene_id |-> i,
     start_frame |-> i * FramesPerScene,
     end_frame |-> (i + 1) * FramesPerScene,
     start_time |-> Seconds(i * FramesPerScene),
     end_time |-> Seconds((i + 1) * FramesPerScene)]

Scenes(n) == [j \in 1..n |-> Scene(j - 1)]

Metadata(f, n) ==
    [video_path |-> VideoPath(f),
     fps |-> Fps,
     threshold |-> DefaultThreshold,
     num_scenes |-> n,
     scenes |-> Scenes(n)]

ErrorEntry(f, e) == [error |-> e, video_path |-> VideoPath(f)]

IsError(entry) == "error" \in DOMAIN entry

\* variant: the count of successes in both modes
BadTotalVideos == processed_count

\* line 217
TotalVideos == IF debug_mode THEN processed_count ELSE valid_count

OutputData ==
    [threshold |-> DefaultThreshold,
     total_videos |-> TotalVideos,
     debug_mode |-> debug_mode,
     videos |-> all_metadata]

\* the text annotate_scene_clip burns into every frame
Annotation(scene_info) ==
    <<scene_info.scene_id, scene_info.start_frame, scene_info.end_frame,
      Fmt2f(scene_info.start_time), Fmt2f(scene_info.end_time)>>

\* a clip as the splitter writes it: the frames of its scene, no overlay
RawClip == [kind |-> "raw", text |-> <<>>, frames |-> FramesPerScene]

\* dict / file-system update: d[k] = v
Put(d, k, v) == [x \in DOMAIN d \cup {k} |-> IF x = k THEN v ELSE d[x]]

Remove(d, k) == [x \in DOMAIN d \ {k} |-> d[x]]

\* variant: no existence test
BadExists(f) == TRUE

\* os.path.exists(os.path.join(video_dir, video_filename))
Exists(f) == f \in on_disk

\* variant: the limit counts attempts ("first N videos")
BadLimitReached == debug_mode /\ Len(attempts) >= debug_limit

\* line 186
LimitReached == debug_mode /\ processed_count >= debug_limit

\* variant: the video directory is not verified
BadDirFound == TRUE

\* line 254
DirFound == dir_exists

\* variant: the error entry replaces the whole dict
BadErrorUpdate(md, f, e) == [x \in {f} |-> ErrorEntry(f, e)]

\* lines 203-206
ErrorUpdate(md, f, e) == Put(md, f, ErrorEntry(f, e))

\* variant: clip k is paired with the scene after its own
BadSceneFor(n, k) == Scenes(n)[IF k < n THEN k + 1 ELSE k]

\* lines 82-83: enumerate(scenes) pairs scene i with clip number i+1
SceneFor(n, k) == Scenes(n)[k]

CurFile == manifest[idx]

CurClip == ClipPath(CurFile, clip_k)

Seqs(S, n) == UNION { [1..m -> S] : m \in 0..n }

(***************************************************************************)
(* scene_detector.py.                                                      *)
(***************************************************************************)
DriverStart ==
    /\ pc = "main"
    /\ rc = -1
    /\ idx = 1
    /\ valid_count = 0
    /\ processed_count = 0
    /\ all_metadata = <<>>
    /\ output_writes = <<>>
    /\ scene_n = -1
    /\ clip_k = 0
    /\ frame_no = 0
    /\ err = ""
    /\ handles = {}
    /\ finalized = {}
    /\ files = <<>>
    /\ dirs = {}
    /\ invoked = FALSE
    /\ raised = ""
    /\ attempts = <<>>
    /\ outcomes = <<>>
    /\ after_split = {}
    /\ annotate_calls = <<>>

DriverInputs ==
    /\ data_exists \in BOOLEAN
    /\ dir_exists \in BOOLEAN
    /\ manifest_valid \in BOOLEAN
    /\ manifest \in Seqs(Filenames \cup {Malformed}, MaxManifest)
    /\ on_disk \in SUBSET Filenames
    /\ debug_mode \in BOOLEAN
    /\ debug_limit \in 0..MaxLimit
    \* read only in debug mode
    /\ ~debug_mode => debug_limit = MaxLimit
    \* nothing is read from a manifest or a directory that is not there
    /\ ~data_exists => ~manifest_valid
    /\ ~manifest_valid => manifest = <<>>
    /\ ~dir_exists => on_disk = {}
    /\ debug_dir_ok \in BOOLEAN
    /\ output_io \in {"ok", "open_fails", "write_fails"}
    \* the debug directory is made only in debug mode, after the manifest was
    \* loaded, and the output path is opened only when the loop was reached
    /\ (~manifest_valid \/ ~debug_mode) => debug_dir_ok
    /\ (~manifest_valid \/ ~debug_dir_ok) => output_io = "ok"

DriverIdle ==
    /\ data_exists = FALSE
    /\ dir_exists = FALSE
    /\ manifest_valid = FALSE
    /\ manifest = <<>>
    /\ on_disk = {}
    /\ debug_mode = FALSE
    /\ debug_limit = 0
    /\ debug_dir_ok = TRUE
    /\ output_io = "ok"
    /\ DriverStart

CompressIdle ==
    /\ cpu_count = 1
    /\ dir_io = "ok"
    /\ listing = {}
    /\ mp4_files = <<>>
    /\ task = <<>>
    /\ result = <<>>
    /\ result_count = <<>>
    /\ tlog = <<>>
    /\ yielded = {}
    /\ cpc = "idle"

Init == DriverInputs /\ DriverStart /\ CompressIdle

inputs == <<data_exists, dir_exists, manifest_valid, manifest, on_disk,
            debug_mode, debug_limit, debug_dir_ok, output_io>>

loop_vars == <<idx, valid_count, processed_count, all_metadata>>

detect_vars == <<scene_n, clip_k, frame_no, err>>

fs_vars == <<files, dirs>>

hist_vars == <<invoked, raised, attempts, outcomes, after_split, annotate_calls>>

\* main, lines 249-256: both paths are verified before anything runs
MainVerifyPaths ==
    /\ pc = "main"
    /\ IF ~data_exists THEN rc' = 1 /\ pc' = "exit" /\ invoked' = invoked
       ELSE IF ~DirFound THEN rc' = 1 /\ pc' = "exit" /\ invoked' = invoked
       ELSE rc' = rc /\ pc' = "load" /\ invoked' = TRUE
    /\ UNCHANGED <<inputs, loop_vars, output_writes, detect_vars, handles, finalized,
                   fs_vars, raised, attempts, outcomes,
                   after_split, annotate_calls, cvars>>

\* process_nba_dataset, lines 159-174: load the manifest and, in debug mode,
\* make the debug directory; a failing json.load or os.makedirs propagates to
\* main's except clause (lines 268-272), which returns 1
LoadDataset ==
    /\ pc = "load"
    /\ IF ~manifest_valid
       THEN /\ raised' = "json.load"
            /\ rc' = 1
            /\ pc' = "exit"
            /\ dirs' = dirs
       ELSE IF debug_mode /\ ~debug_dir_ok
       THEN /\ raised' = "os.makedirs"
            /\ rc' = 1
            /\ pc' = "exit"
            /\ dirs' = dirs
       ELSE /\ raised' = raised
            /\ rc' = rc
            /\ pc' = "loop"
            /\ dirs' = IF debug_mode THEN dirs \cup {DebugOutputDir} ELSE dirs
    /\ UNCHANGED <<inputs, loop_vars, output_writes, detect_vars, handles, finalized,
                   files, invoked, attempts, outcomes,
                   after_split, annotate_calls, cvars>>

\* one pass through the head of the for loop, lines 176-187. Line 177 lies
\* outside the try: on a malformed record the KeyError (TypeError) leaves
\* process_nba_dataset, and main's except clause (lines 268-272) returns 1
LoopHead ==
    /\ pc = "loop"
    /\ IF idx > Len(manifest)
       THEN /\ pc' = "write"
            /\ UNCHANGED <<idx, valid_count, attempts, rc, raised>>
       ELSE IF CurFile = Malformed
       THEN /\ raised' = "KeyError"
            /\ rc' = 1
            /\ pc' = "exit"
            /\ UNCHANGED <<idx, valid_count, attempts>>
       ELSE IF ~Exists(CurFile)
       THEN /\ pc' = "loop"
            /\ idx' = idx + 1
            /\ UNCHANGED <<valid_count, attempts, rc, raised>>
       ELSE /\ valid_count' = valid_count + 1
            /\ UNCHANGED <<rc, raised>>
            /\ IF LimitReached
               THEN pc' = "write" /\ UNCHANGED <<idx, attempts>>
               ELSE /\ pc' = "open"
                    /\ idx' = idx
                    /\ attempts' = Append(attempts,
                           [file |-> CurFile, at |-> idx])
    /\ UNCHANGED <<inputs, processed_count, all_metadata, output_writes,
                   detect_vars, handles, finalized, fs_vars, invoked,
                   outcomes, after_split, annotate_calls, cvars>>

\* The model keeps the clip files the rest of the run can still read or
\* replace: those in the clip directory of an item still to be visited.
StillRead(fs, from) ==
    LET live == { DebugVideoDir(manifest[j]) : j \in from..Len(manifest) }
    IN  [q \in { x \in DOMAIN fs : Dirname(x) \in live } |-> fs[q]]

StillMade(ds, from) ==
    ds \cap ({DebugOutputDir} \cup { DebugVideoDir(manifest[j]) : j \in from..Len(manifest) })

\* An exception leaves detect_scenes for the except clause of line 201. Its
\* traceback refers to the frames it passed through, so their locals, and the
\* handles they hold, live on while the except clause runs.
Raise(e) ==
    /\ pc' = "except"
    /\ err' = e
    /\ UNCHANGED <<handles, finalized>>
    /\ scene_n' = -1
    /\ clip_k' = 0
    /\ frame_no' = 0
    /\ UNCHANGED loop_vars

\* detect_scenes, line 32: open_video
OpenVideo ==
    /\ pc = "open"
    /\ \/ /\ pc' = "detect"
          /\ handles' = handles \cup {"video"}
          /\ UNCHANGED <<loop_vars, detect_vars, finalized>>
       \/ Raise("open_video")
    /\ UNCHANGED <<inputs, rc, output_writes, fs_vars, hist_vars, cvars>>

\* detect_scenes, lines 33-70: run the detector, build the metadata, and in
\* debug mode with a non-empty scene list make the clip directory
RunDetector ==
    /\ pc = "detect"
    /\ \/ /\ \E n \in 0..MaxScenes :
               /\ scene_n' = n
               /\ IF debug_mode /\ n > 0
                  THEN /\ pc' = "split"
                       /\ dirs' = dirs \cup {DebugVideoDir(CurFile)}
                  ELSE /\ pc' = "return"
                       /\ dirs' = dirs
          /\ UNCHANGED <<loop_vars, clip_k, frame_no, err, handles, finalized>>
       \/ Raise("detect_scenes") /\ dirs' = dirs
    /\ UNCHANGED <<inputs, rc, output_writes, files, hist_vars, cvars>>

\* detect_scenes, lines 73-79: the external splitter writes one clip per
\* scene, except those it skips; or it raises
SplitVideo ==
    /\ pc = "split"
    /\ \/ /\ \E made \in SUBSET (1..scene_n) :
                /\ Cardinality((1..scene_n) \ made) <= MaxSkipped
                /\ LET written == { ClipPath(CurFile, n) : n \in made }
                   IN  files' = [q \in DOMAIN files \cup written |->
                                    IF q \in written THEN RawClip ELSE files[q]]
          /\ after_split' = { n \in 1..scene_n : ClipPath(CurFile, n) \in DOMAIN files' }
          /\ annotate_calls' = <<>>
          /\ clip_k' = 1
          /\ pc' = "clips"
          /\ UNCHANGED <<loop_vars, scene_n, frame_no, err, handles, finalized>>
       \/ /\ Raise("split_video_ffmpeg")
          /\ UNCHANGED <<files, after_split, annotate_calls>>
    /\ UNCHANGED <<inputs, rc, output_writes, dirs, invoked, raised, attempts,
                   outcomes, cvars>>

\* detect_scenes, lines 82-85: the loop over the scenes
ClipLoop ==
    /\ pc = "clips"
    /\ IF clip_k > scene_n
       THEN pc' = "return" /\ UNCHANGED <<clip_k, annotate_calls>>
       ELSE IF CurClip \in DOMAIN files
       THEN /\ pc' = "annotate"
            /\ annotate_calls' = Append(annotate_calls, <<clip_k, SceneFor(scene_n, clip_k)>>)
            /\ UNCHANGED clip_k
       ELSE pc' = "clips" /\ clip_k' = clip_k + 1 /\ UNCHANGED annotate_calls
    /\ UNCHANGED <<inputs, rc, loop_vars, output_writes, scene_n, frame_no, err,
                   handles, finalized, fs_vars, invoked, raised, attempts,
                   outcomes, after_split, cvars>>

\* annotate_scene_clip, lines 100-114: open the capture and the writer; the
\* writer creates its file only when the directory of temp_path exists
AnnotateOpen ==
    /\ pc = "annotate"
    /\ handles' = handles \cup {"cap", "out"}
    /\ finalized' = finalized
    /\ LET temp_path == TempPath(CurClip)
       IN  files' = IF Dirname(temp_path) \in dirs
                    THEN Put(files, temp_path,
                             [kind |-> "annotated",
                              text |-> Annotation(annotate_calls[Len(annotate_calls)][2]),
                              frames |-> 0])
                    ELSE files
    /\ frame_no' = 0
    /\ pc' = "frames"
    /\ UNCHANGED <<inputs, rc, loop_vars, output_writes, scene_n, clip_k, err,
                   dirs, hist_vars, cvars>>

\* annotate_scene_clip, lines 117-139: one pass of the frame loop; when
\* cap.read() reports the end, both handles are released
AnnotateFrame ==
    /\ pc = "frames"
    /\ IF frame_no >= files[CurClip].frames
       THEN /\ handles' = handles \ {"cap", "out"}
            /\ pc' = "replace"
            /\ UNCHANGED <<loop_vars, detect_vars, finalized, files>>
       ELSE \/ /\ LET temp_path == TempPath(CurClip)
                  IN  files' = IF Dirname(temp_path) \in dirs
                               THEN [files EXCEPT ![temp_path].frames = @ + 1]
                               ELSE files
               /\ frame_no' = frame_no + 1
               /\ pc' = "frames"
               /\ UNCHANGED <<loop_vars, scene_n, clip_k, err, handles, finalized>>
            \/ Raise("cv2.error") /\ files' = files
    /\ UNCHANGED <<inputs, rc, output_writes, dirs, hist_vars, cvars>>

\* annotate_scene_clip, line 142: os.replace(temp_path, clip_path)
AnnotateReplace ==
    /\ pc = "replace"
    /\ LET temp_path == TempPath(CurClip)
       IN  IF temp_path \in DOMAIN files
           THEN /\ files' = IF temp_path = CurClip THEN files
                            ELSE Remove(Put(files, CurClip, files[temp_path]), temp_path)
                /\ clip_k' = clip_k + 1
                /\ frame_no' = 0
                /\ pc' = "clips"
                /\ UNCHANGED <<loop_vars, scene_n, err, handles, finalized>>
           ELSE Raise("FileNotFoundError") /\ files' = files
    /\ UNCHANGED <<inputs, rc, output_writes, dirs, hist_vars, cvars>>

\* detect_scenes returns (line 87) and lines 195-196 store the metadata. The
\* function has no release call for video (line 32): the handle is still
\* open when the frame goes, and is closed by its finalizer as the last
\* reference to it is dropped.
StoreMetadata ==
    /\ pc = "return"
    /\ all_metadata' = Put(all_metadata, CurFile, Metadata(CurFile, scene_n))
    /\ processed_count' = processed_count + 1
    /\ finalized' = handles
    /\ handles' = {}
    /\ scene_n' = -1
    /\ clip_k' = 0
    /\ frame_no' = 0
    /\ idx' = idx + 1
    /\ pc' = "loop"
    /\ files' = StillRead(files, idx + 1)
    /\ dirs' = StillMade(dirs, idx + 1)
    /\ outcomes' = Append(outcomes, Metadata(CurFile, scene_n))
    /\ after_split' = {}
    /\ annotate_calls' = <<>>
    /\ UNCHANGED <<inputs, rc, valid_count, output_writes, err, invoked, raised,
                   attempts, cvars>>

\* the except clause, lines 201-206, stores the error entry; at its end the
\* name e is unbound, the traceback and the frames it kept are dropped, and
\* the loop goes on with the next item. No release call lies on this path
\* (lines 138-139 were not reached, and there is no finally): the handles
\* still open are closed by their finalizers.
HandleError ==
    /\ pc = "except"
    /\ finalized' = handles
    /\ handles' = {}
    /\ all_metadata' = ErrorUpdate(all_metadata, CurFile, err)
    /\ outcomes' = Append(outcomes, ErrorEntry(CurFile, err))
    /\ err' = ""
    /\ idx' = idx + 1
    /\ pc' = "loop"
    /\ files' = StillRead(files, idx + 1)
    /\ dirs' = StillMade(dirs, idx + 1)
    /\ after_split' = {}
    /\ annotate_calls' = <<>>
    /\ UNCHANGED <<inputs, rc, valid_count, processed_count, output_writes,
                   scene_n, clip_k, frame_no, invoked, raised, attempts, cvars>>

\* variant: the dump sits inside the loop body as well
BadWriteOutput ==
    /\ pc \in {"write", "loop"}
    /\ IF output_io = "open_fails"
       THEN /\ raised' = "open"
            /\ rc' = 1
            /\ pc' = "exit"
            /\ UNCHANGED output_writes
       ELSE /\ output_writes' = Append(output_writes, OutputData)
            /\ IF output_io = "write_fails"
               THEN raised' = "write" /\ rc' = 1 /\ pc' = "exit"
               ELSE raised' = raised /\ rc' = rc /\ pc' = (IF pc = "write" THEN "written" ELSE pc)
    /\ UNCHANGED <<inputs, loop_vars, detect_vars, handles, finalized, fs_vars, invoked,
                   attempts, outcomes, after_split, annotate_calls, cvars>>

\* lines 214-223: the one json.dump. When open(output_path, 'w') fails nothing
\* is dumped; when the dump or the close at the end of the with block fails
\* the dump was made and the file is not whole. Either exception propagates
\* to main's except clause (lines 268-272), which returns 1
WriteOutput ==
    /\ pc = "write"
    /\ IF output_io = "open_fails"
       THEN /\ raised' = "open"
            /\ rc' = 1
            /\ pc' = "exit"
            /\ UNCHANGED output_writes
       ELSE /\ output_writes' = Append(output_writes, OutputData)
            /\ IF output_io = "write_fails"
               THEN raised' = "write" /\ rc' = 1 /\ pc' = "exit"
               ELSE raised' = raised /\ rc' = rc /\ pc' = "written"
    /\ UNCHANGED <<inputs, loop_vars, detect_vars, handles, finalized, fs_vars, invoked,
                   attempts, outcomes, after_split, annotate_calls, cvars>>

\* main, line 274
MainReturn ==
    /\ pc = "written"
    /\ rc' = 0
    /\ pc' = "exit"
    /\ UNCHANGED <<inputs, loop_vars, output_writes, detect_vars, handles, finalized,
                   fs_vars, hist_vars, cvars>>

Next ==
    \/ MainVerifyPaths
    \/ LoadDataset
    \/ LoopHead
    \/ OpenVideo
    \/ RunDetector
    \/ SplitVideo
    \/ ClipLoop
    \/ AnnotateOpen
    \/ AnnotateFrame
    \/ AnnotateReplace
    \/ StoreMetadata
    \/ HandleError
    \/ WriteOutput
    \/ MainReturn

Spec == Init /\ [][Next]_vars

(***************************************************************************)
(* Claims about scene_detector.py.                                         *)
(***************************************************************************)
ExistingRecords == { j \in 1..Len(manifest) : manifest[j] \in on_disk }

Succeeded(n) == { a \in 1..n : a <= Len(outcomes) /\ ~IsError(outcomes[a]) }

\* detect_scenes is running for manifest[idx], or its outcome is being stored
InVideo ==
    pc \in {"open", "detect", "split", "clips", "annotate", "frames", "replace",
            "return", "except"}

LoopOver == pc \in {"write", "written"} \/ (pc = "exit" /\ rc = 0)

\* C1: every key of `videos` is the filename of a manifest record whose file
\* existed when the loop visited it; a record whose file is missing gets no
\* entry and detect_scenes is never called for it.
C1_KeysExisted ==
    /\ \A a \in 1..Len(attempts) :
          /\ attempts[a].file \in on_disk
          /\ attempts[a].at <= idx
          /\ manifest[attempts[a].at] = attempts[a].file
    /\ \A f \in DOMAIN all_metadata :
          /\ f \in on_disk
          /\ \E a \in 1..Len(attempts) : attempts[a].file = f
    /\ \A w \in 1..Len(output_writes) :
          DOMAIN output_writes[w].videos \subseteq
              { manifest[j] : j \in ExistingRecords }
    /\ \A j \in 1..Len(manifest) :
          manifest[j] \notin on_disk =>
              /\ manifest[j] \notin DOMAIN all_metadata
              /\ \A a \in 1..Len(attempts) : attempts[a].at # j

C1_Witness ==
    /\ pc = "exit" /\ rc = 0
    /\ Len(manifest) = 3
    /\ manifest[2] \notin on_disk
    /\ DOMAIN output_writes[1].videos = {manifest[1], manifest[3]}
    /\ manifest[1] # manifest[3]
    /\ IsError(output_writes[1].videos[manifest[1]])
    /\ ~IsError(output_writes[1].videos[manifest[3]])

\* C2: in debug mode with limit N only successful detections count towards N,
\* no video is attempted once N have succeeded, and the loop ends with exactly
\* N successes unless the manifest ran out first.
C2_DebugLimit ==
    debug_mode =>
        /\ processed_count <= debug_limit
        /\ processed_count = Cardinality(Succeeded(Len(outcomes)))
        /\ \A a \in 1..Len(attempts) : Cardinality(Succeeded(a - 1)) < debug_limit
        /\ LoopOver => (processed_count = debug_limit \/ idx > Len(manifest))
        /\ (LoopOver /\ idx <= Len(manifest)) =>
              /\ manifest[idx] \in on_disk
              /\ \A a \in 1..Len(attempts) : attempts[a].at < idx

C2_Witness ==
    /\ pc = "exit" /\ rc = 0
    /\ debug_mode /\ debug_limit = 1
    /\ Len(manifest) = 3
    /\ Cardinality({manifest[1], manifest[2], manifest[3]}) = 3
    /\ on_disk = Filenames
    /\ Len(attempts) = 2
    /\ IsError(all_metadata[manifest[1]])
    /\ ~IsError(all_metadata[manifest[2]])
    /\ manifest[3] \notin DOMAIN all_metadata
    /\ output_writes[1].total_videos = 1

\* the loop stands at a record item['video'] cannot be read from
AtMalformed == idx <= Len(manifest) /\ manifest[idx] = Malformed

LastAttempt(f) ==
    CHOOSE a \in 1..Len(outcomes) :
        /\ attempts[a].file = f
        /\ \A b \in 1..Len(outcomes) : attempts[b].file = f => b <= a

\* C3: a failure inside detect_scenes is recorded as {error, video_path} under
\* that filename, the entries of the other videos stay as they were, the loop
\* goes on with the next record, no such failure makes process_nba_dataset
\* raise (it raises only from json.load, os.makedirs, a malformed record or
\* the output path), and the output is still written unless one of these
\* raised.
C3_ErrorContained ==
    /\ Len(outcomes) <= Len(attempts)
    /\ Len(attempts) <= Len(outcomes) + 1
    /\ DOMAIN all_metadata = { attempts[a].file : a \in 1..Len(outcomes) }
    /\ \A f \in DOMAIN all_metadata : all_metadata[f] = outcomes[LastAttempt(f)]
    /\ \A a \in 1..Len(outcomes) :
          IsError(outcomes[a]) =>
              /\ DOMAIN outcomes[a] = {"error", "video_path"}
              /\ outcomes[a].error # ""
              /\ outcomes[a].video_path = VideoPath(attempts[a].file)
    /\ raised \in {"", "json.load", "os.makedirs", "KeyError", "open", "write"}
    /\ raised = "KeyError" <=> (invoked /\ debug_dir_ok /\ pc = "exit" /\ AtMalformed)
    /\ raised = "json.load" <=> (invoked /\ ~manifest_valid /\ pc = "exit")
    /\ raised = "os.makedirs" <=> (invoked /\ ~debug_dir_ok /\ pc = "exit")
    /\ raised = "open" <=>
          (invoked /\ manifest_valid /\ output_io = "open_fails" /\ pc = "exit"
             /\ ~AtMalformed)
    /\ raised = "write" <=>
          (invoked /\ manifest_valid /\ output_io = "write_fails" /\ pc = "exit"
             /\ ~AtMalformed)
    /\ (invoked /\ manifest_valid /\ debug_dir_ok /\ output_io = "ok") =>
          (rc = 1 <=> raised = "KeyError")
    \* every existing record before the point the loop has reached was attempted
    /\ (invoked /\ ~debug_mode) =>
          Len(attempts) = Cardinality({ j \in ExistingRecords :
                                          j < idx \/ (j = idx /\ InVideo) })
    /\ (invoked /\ manifest_valid /\ ~debug_mode /\ raised # "KeyError"
          /\ (LoopOver \/ pc = "exit")) =>
          Len(outcomes) = Cardinality(ExistingRecords)
    /\ (invoked /\ manifest_valid /\ debug_dir_ok /\ output_io = "ok" /\ pc = "exit"
          /\ raised # "KeyError") =>
          /\ Len(output_writes) = 1
          /\ output_writes[1].videos = all_metadata

C3_Witness ==
    /\ pc = "exit" /\ rc = 0
    /\ ~debug_mode
    /\ Len(outcomes) = 3
    /\ Cardinality({manifest[1], manifest[2], manifest[3]}) = 3
    /\ ~IsError(outcomes[1]) /\ IsError(outcomes[2]) /\ ~IsError(outcomes[3])
    /\ output_writes[1].videos[manifest[1]] = outcomes[1]
    /\ output_writes[1].videos[manifest[2]].error = "detect_scenes"

\* C4: main returns 1 when the manifest or the video directory is missing, and
\* then process_nba_dataset is not invoked and nothing is written; it returns 1
\* when process_nba_dataset raises; it returns 0 in every other run.
C4_ExitCode ==
    /\ rc \in {-1, 0, 1}
    /\ (pc = "exit") <=> (rc # -1)
    /\ pc = "exit" => ((rc = 1) <=> (~data_exists \/ ~dir_exists \/ raised # ""))
    /\ (~data_exists \/ ~dir_exists) => (~invoked /\ output_writes = <<>>)
    /\ raised # "" => (invoked /\ rc = 1)

C4_Witness ==
    /\ pc = "exit" /\ rc = 1
    /\ data_exists /\ manifest_valid /\ Len(manifest) = 3
    /\ ~dir_exists

FinalNames == { ClipPath(f, n) : f \in Filenames, n \in 1..MaxScenes }

InAnnotate == pc \in {"annotate", "frames", "replace"}

C5_Whole ==
    \A q \in DOMAIN files \cap FinalNames :
        /\ files[q].kind \in {"raw", "annotated"}
        /\ files[q].frames = FramesPerScene

C5_OnlyRename ==
    \A q \in DOMAIN files \cap FinalNames :
        (InAnnotate /\ (q \notin DOMAIN files' \/ files'[q] # files[q])) =>
            /\ pc = "replace"
            /\ "out" \notin handles
            /\ q = CurClip
            /\ TempPath(q) # q
            /\ TempPath(q) \in DOMAIN files
            /\ files'[q] = files[TempPath(q)]

\* C5: while annotate_scene_clip runs, the file under the clip's final name is
\* the whole raw clip or the whole annotated clip; frames are written to the
\* temp path only, and the final name changes by the one rename made after
\* the writer was released.
C5_AtomicReplace == []C5_Whole /\ [][C5_OnlyRename]_vars

C5_Witness ==
    /\ pc = "frames"
    /\ frame_no = 1
    /\ TempPath(CurClip) \in DOMAIN files
    /\ files[TempPath(CurClip)].frames = 1
    /\ files[CurClip] = RawClip
    /\ "out" \in handles

\* C6: when the driver turns to the next manifest record, every handle of the
\* video before it (the decoder handle of detect_scenes, the capture and the
\* writer of annotate_scene_clip) has been released on the path the video
\* took, success or failure: none is open, and none was left open for its
\* finalizer to close.
C6_HandlesReleased ==
    /\ handles \subseteq {"video", "cap", "out"}
    /\ pc \in {"main", "load", "loop", "open", "write", "written", "exit"} =>
          (handles = {} /\ finalized = {})

\* C7: in full mode total_videos is the number of manifest records whose file
\* existed, failed detections included and missing files not, and the keys
\* are those filenames; in debug mode it is the number of successes.
C7_TotalVideos ==
    \A w \in 1..Len(output_writes) :
        LET o == output_writes[w]
        IN  /\ ~debug_mode =>
                  /\ o.total_videos = Cardinality(ExistingRecords)
                  /\ DOMAIN o.videos = { manifest[j] : j \in ExistingRecords }
            /\ debug_mode =>
                  o.total_videos = Cardinality(Succeeded(Len(outcomes)))
            /\ o.debug_mode = debug_mode

C7_Witness ==
    /\ pc = "exit" /\ rc = 0
    /\ ~debug_mode
    /\ manifest = << <<"a", Mp4>>, <<"c", Mp4, Mp4>>, <<"b", Mp4>> >>
    /\ on_disk = { <<"a", Mp4>>, <<"b", Mp4>> }
    /\ output_writes[1].total_videos = 2
    /\ DOMAIN output_writes[1].videos = { <<"a", Mp4>>, <<"b", Mp4>> }
    /\ output_writes[1].videos[<<"a", Mp4>>] = Metadata(<<"a", Mp4>>, 3)
    /\ output_writes[1].videos[<<"b", Mp4>>] = Metadata(<<"b", Mp4>>, 1)

\* C8: a run that returns 0 has written the output exactly once; a run that
\* returns 1 has written nothing, unless it is the one write itself that
\* failed; and the write comes only after the loop has ended (manifest
\* exhausted or debug limit reached); before that nothing has been written.
C8_WrittenOnce ==
    /\ Len(output_writes) <= 1
    /\ pc \notin {"written", "exit"} => output_writes = <<>>
    /\ pc = "written" => Len(output_writes) = 1
    /\ pc = "exit" => ((Len(output_writes) = 1) <=> (rc = 0 \/ raised = "write"))
    /\ Len(output_writes) = 1 =>
          /\ idx > Len(manifest) \/ (debug_mode /\ processed_count >= debug_limit)
          /\ Len(outcomes) = Len(attempts)
          /\ output_writes[1].videos = all_metadata

C8_Witness ==
    /\ pc = "written"
    /\ Len(outcomes) = 3
    /\ \E a \in 1..3 : IsError(outcomes[a])
    /\ Len(output_writes) = 1

\* C10: in debug mode with a non-empty scene list, the clip numbered k is
\* annotated with the scene whose scene_id is k-1, for exactly the k whose
\* clip exists after splitting; a missing clip is skipped without an error
\* and the other clips are annotated all the same.
C10_ClipAnnotation ==
    /\ \A c \in 1..Len(annotate_calls) :
          LET k == annotate_calls[c][1]
          IN  /\ k \in after_split
              /\ annotate_calls[c][2].scene_id = k - 1
              /\ annotate_calls[c][2] = Scene(k - 1)
              /\ \A d \in 1..(c - 1) : annotate_calls[d][1] < k
    /\ (pc = "return" /\ debug_mode /\ scene_n > 0) =>
          /\ err = ""
          /\ { annotate_calls[c][1] : c \in 1..Len(annotate_calls) } = after_split
          /\ \A k \in after_split :
                files[ClipPath(CurFile, k)] =
                    [kind |-> "annotated", text |-> Annotation(Scene(k - 1)),
                     frames |-> FramesPerScene]
          /\ \A k \in (1..scene_n) \ after_split :
                ClipPath(CurFile, k) \notin DOMAIN files

C10_Witness ==
    /\ pc = "return"
    /\ debug_mode
    /\ scene_n = 3
    /\ after_split = {1, 3}
    /\ Len(annotate_calls) = 2
    /\ files[ClipPath(CurFile, 3)].text = Annotation(Scene(2))

(***************************************************************************)
(* video_compressor.py.                                                    *)
(***************************************************************************)
PoolCap == 4

Min(a, b) == IF a < b THEN a ELSE b

\* the names os.listdir(INPUT_DIR) may hold
Mp4Name(j) == <<Digit[j], Mp4>>

OtherNames == { <<"notes", ".txt">>, <<"a", Mp4, ".bak">>, <<"b", "mp4">> }

\* str.endswith('.mp4')
EndsWithMp4(name) == Len(name) > 0 /\ name[Len(name)] = Mp4

\* the order of str on the names of the model: by leading digit
KeyOf(name) == CHOOSE j \in 1..9 : Digit[j] = name[1]

\* line 62: sorted([f for f in os.listdir(INPUT_DIR) if f.endswith('.mp4')])
SortedMp4(names) ==
    LET S == { f \in names : EndsWithMp4(f) }
    IN  CHOOSE q \in [1..Cardinality(S) -> S] :
            \A x, y \in 1..Cardinality(S) : x < y => KeyOf(q[x]) < KeyOf(q[y])

\* variant: one worker per processor, uncapped
BadMaxWorkers == cpu_count

\* line 67
MaxWorkers == Min(PoolCap, cpu_count)

Tasks == DOMAIN task

\* the tasks a worker process is busy with
Running == { t \in Tasks : task[t] \in {"taken", "gpu", "cpu"} }

\* Every machine with more than PoolCap processors gets the same pool, so one
\* such count stands for them all.
CpuCounts == 1..(PoolCap + 1)

\* the directory holds up to MaxFiles .mp4 files beside files of other names
CompressInputs ==
    /\ cpu_count \in CpuCounts
    /\ dir_io \in {"ok", "makedirs_fails", "listdir_fails"}
    \* a directory that cannot be listed shows no names
    /\ IF dir_io = "listdir_fails"
       THEN listing = {}
       ELSE \E k \in 0..MaxFiles :
               listing = { Mp4Name(j) : j \in 1..k } \cup OtherNames
    \* the processors are counted only after the listing
    /\ dir_io # "ok" => cpu_count = 1

CompressStart ==
    /\ mp4_files = <<>>
    /\ task = <<>>
    /\ result = <<>>
    /\ result_count = <<>>
    /\ tlog = <<>>
    /\ yielded = {}
    /\ cpc = "start"

CInit == CompressInputs /\ CompressStart /\ DriverIdle

\* lines 13 and 62-69: make the output directory, list the input directory,
\* sort the .mp4 names, make the pool. When os.makedirs or os.listdir raises
\* the script ends there, before any task is submitted.
ListFiles ==
    /\ cpc = "start"
    /\ IF dir_io = "ok"
       THEN /\ mp4_files' = SortedMp4(listing)
            /\ cpc' = "submit"
       ELSE /\ mp4_files' = mp4_files
            /\ cpc' = "failed"
    /\ UNCHANGED <<cpu_count, dir_io, listing, task, result, result_count, tlog,
                   yielded, dvars>>

\* line 70: one executor.submit per name, in list order; the workers run the
\* tasks already submitted while the others are still being submitted. After
\* the last one the main thread enters the loop of line 72.
Submit ==
    /\ cpc = "submit"
    /\ IF Len(task) < Len(mp4_files)
       THEN /\ task' = Append(task, "queued")
            /\ result' = Append(result, "")
            /\ result_count' = Append(result_count, 0)
            /\ tlog' = Append(tlog, <<>>)
            /\ cpc' = cpc
       ELSE /\ cpc' = "collect"
            /\ UNCHANGED <<task, result, result_count, tlog>>
    /\ UNCHANGED <<cpu_count, dir_io, listing, mp4_files, yielded, dvars>>

\* compress_video returns r: the future gets its result
Return(t, r) ==
    /\ task' = [task EXCEPT ![t] = "done"]
    /\ result' = [result EXCEPT ![t] = r]
    /\ result_count' = [result_count EXCEPT ![t] = @ + 1]

\* subprocess.run raises something else than CalledProcessError (ffmpeg cannot
\* be started): no except clause of compress_video matches, the exception
\* leaves the function and the future holds it instead of a result
Throw(t) ==
    /\ task' = [task EXCEPT ![t] = "raised"]
    /\ UNCHANGED <<result, result_count>>

\* A free worker process takes the oldest call of the queue
StartTask(t) ==
    /\ task[t] = "queued"
    /\ \A u \in 1..(t - 1) : task[u] # "queued"
    /\ Cardinality(Running) < MaxWorkers
    /\ task' = [task EXCEPT ![t] = "taken"]
    /\ UNCHANGED <<cpu_count, dir_io, listing, mp4_files, result, result_count, tlog,
                   yielded, cpc, dvars>>

\* lines 17-22, in the worker that took the task: the test of the output path
CheckOutput(t) ==
    /\ task[t] = "taken"
    /\ \/ /\ tlog' = [tlog EXCEPT ![t] = Append(@, "exists")]
          /\ Return(t, "Skipped")
       \/ /\ tlog' = [tlog EXCEPT ![t] = Append(@, "absent")]
          /\ task' = [task EXCEPT ![t] = "gpu"]
          /\ UNCHANGED <<result, result_count>>
    /\ UNCHANGED <<cpu_count, dir_io, listing, mp4_files, yielded, cpc, dvars>>

\* lines 50-53: the GPU encode ends
GpuEnds(t) ==
    /\ task[t] = "gpu"
    /\ \/ /\ tlog' = [tlog EXCEPT ![t] = Append(@, "gpu_ok")]
          /\ Return(t, "Completed (GPU)")
       \/ /\ tlog' = [tlog EXCEPT ![t] = Append(@, "gpu_failed")]
          /\ task' = [task EXCEPT ![t] = "cpu"]
          /\ UNCHANGED <<result, result_count>>
       \/ /\ tlog' = [tlog EXCEPT ![t] = Append(@, "gpu_not_started")]
          /\ Throw(t)
    /\ UNCHANGED <<cpu_count, dir_io, listing, mp4_files, yielded, cpc, dvars>>

\* lines 55-59: the CPU encode ends
CpuEnds(t) ==
    /\ task[t] = "cpu"
    /\ \/ /\ tlog' = [tlog EXCEPT ![t] = Append(@, "cpu_ok")]
          /\ Return(t, "Completed (CPU)")
       \/ /\ tlog' = [tlog EXCEPT ![t] = Append(@, "cpu_failed")]
          /\ Return(t, "Error")
       \/ /\ tlog' = [tlog EXCEPT ![t] = Append(@, "cpu_not_started")]
          /\ Throw(t)
    /\ UNCHANGED <<cpu_count, dir_io, listing, mp4_files, yielded, cpc, dvars>>

Finished == { t \in Tasks : task[t] \in {"done", "raised"} }

\* lines 72-75: as_completed yields a finished future it has not yielded yet;
\* future.result() returns the task's string, or raises the exception the
\* task was left by, which ends the loop and the with block
Collect ==
    /\ cpc = "collect"
    /\ \E t \in Finished \ yielded :
          /\ yielded' = yielded \cup {t}
          /\ cpc' = IF task[t] = "raised" THEN "shutdown" ELSE cpc
    /\ UNCHANGED <<cpu_count, dir_io, listing, mp4_files, task, result, result_count,
                   tlog, dvars>>

\* line 77: every future has been yielded, the pool is shut down and the last
\* line is printed
Complete ==
    /\ cpc = "collect"
    /\ yielded = Tasks
    /\ cpc' = "complete"
    /\ UNCHANGED <<cpu_count, dir_io, listing, mp4_files, task, result, result_count,
                   tlog, yielded, dvars>>

\* line 69, leaving the with block by the exception of line 73: the executor
\* waits for the calls still queued or running, then the exception ends the
\* script before line 77
Crash ==
    /\ cpc = "shutdown"
    /\ Finished = Tasks
    /\ cpc' = "crashed"
    /\ UNCHANGED <<cpu_count, dir_io, listing, mp4_files, task, result, result_count,
                   tlog, yielded, dvars>>

CNext ==
    \/ ListFiles
    \/ Submit
    \/ \E t \in Tasks : StartTask(t)
    \/ \E t \in Tasks : CheckOutput(t)
    \/ \E t \in Tasks : GpuEnds(t)
    \/ \E t \in Tasks : CpuEnds(t)
    \/ Collect
    \/ Complete
    \/ Crash

\* Worker processes and the ffmpeg subprocesses they wait for run to their
\* end, and the main thread is scheduled.
CompressSpec == CInit /\ [][CNext]_vars /\ WF_vars(CNext)

(***************************************************************************)
(* Claims about video_compressor.py.                                       *)
(***************************************************************************)
Has(log, e) == \E j \in 1..Len(log) : log[j] = e

GpuTried(t) ==
    Has(tlog[t], "gpu_ok") \/ Has(tlog[t], "gpu_failed") \/ Has(tlog[t], "gpu_not_started")

CpuTried(t) ==
    Has(tlog[t], "cpu_ok") \/ Has(tlog[t], "cpu_failed") \/ Has(tlog[t], "cpu_not_started")

GpuFailed(t) == Has(tlog[t], "gpu_failed") \/ Has(tlog[t], "gpu_not_started")

CpuFailed(t) == Has(tlog[t], "cpu_failed") \/ Has(tlog[t], "cpu_not_started")

\* C9: one compress_video task per .mp4 file; never more than min(4, cpu_count)
\* tasks running; each task tries the GPU first, the CPU exactly when the GPU
\* failed, ends in Error exactly when both failed, runs no encode when the
\* output exists; and every task that has ended has exactly one result.
C9_Compressor ==
    /\ cpc \in {"collect", "shutdown", "complete", "crashed"} =>
          \* one task per .mp4 name of the directory, and none for another name
          /\ { mp4_files[t] : t \in Tasks } = { f \in listing : EndsWithMp4(f) }
          /\ Len(mp4_files) = Cardinality({ f \in listing : EndsWithMp4(f) })
          /\ Tasks = 1..Len(mp4_files)
    \* the pool bound
    /\ Cardinality(Running) <= 4
    /\ Cardinality(Running) <= cpu_count
    /\ \A t \in Tasks :
          /\ result_count[t] <= 1
          \* the GPU first
          /\ CpuTried(t) => GpuTried(t)
          \* the CPU encode is run if and only if the GPU encode failed
          /\ task[t] \in {"done", "raised"} => (CpuTried(t) <=> GpuFailed(t))
          \* every task that ended gave exactly one result
          /\ task[t] \in {"done", "raised"} => result_count[t] = 1
          /\ result_count[t] = 1 =>
                /\ (result[t] = "Error") <=> (GpuFailed(t) /\ CpuFailed(t))
                /\ (result[t] = "Skipped") <=> (tlog[t] = <<"exists">>)
                /\ (result[t] = "Completed (GPU)") <=> Has(tlog[t], "gpu_ok")
                /\ (result[t] = "Completed (CPU)") <=> Has(tlog[t], "cpu_ok")
          \* no encode at all when the output file exists on entry
          /\ Has(tlog[t], "exists") => tlog[t] = <<"exists">>
    /\ cpc \in {"complete", "crashed"} =>
          /\ \A t \in Tasks : result_count[t] = 1
          /\ yielded = Tasks

====
